---- MODULE Spec2Model ----
(***************************************************************************)
(* Gluten development analysis: the analysis pipeline                      *)
(* analyze_gluten_development and the two entry points that present its    *)
(* result, the Streamlit dashboard (gluten_analysis_app.py) and the        *)
(* console script (gluten_analysis_simple.py).                             *)
(*                                                                         *)
(* Numbers.  The program computes in IEEE doubles; the model computes in   *)
(* exact arithmetic.  A rational is a normalised pair <<n, d>> with d > 0. *)
(* A standard deviation is a square root, so a real value is a record      *)
(* [a, k, r] standing for a + k * sqrt(r); sums, scalings and comparisons  *)
(* of such values are exact.  The two non-finite doubles the program can   *)
(* produce are the records NaN and Inf.      Timestamps are integers in    *)
(* milliseconds (Seconds converts), samples of gFTotal are integers.       *)
(***************************************************************************)
EXTENDS Integers, Sequences, FiniteSets, TLC

VARIABLES entry, pc, df, spectrum,
          total_time, mean_gforce, std_gforce, peaks, sampling_rate,
          psd, window_size, rolling_std, analysis,
          Sxx, fig, out, error

vars == <<entry, pc, df, spectrum, total_time, mean_gforce, std_gforce, peaks,
          sampling_rate, psd, window_size, rolling_std, analysis, Sxx, fig,
          out, error>>

---------------------------------------------------------------------------
(* Bounds of the model. *)

\* longest series of the exhaustively enumerated short inputs
MaxLen == 4
\* largest sample value of the exhaustively enumerated short inputs
MaxVal == 2
\* largest power value of the exhaustively enumerated PSD arrays
MaxPow == 2

(* Program constants. *)

\* spectrogram(..., nperseg=1024, ...) and welch(..., nperseg=1024)
NPerSeg == 1024
\* spectrogram(..., noverlap=512)
NOverlap == 512
\* window_size = int(sampling_rate * 10)
WindowSeconds == 10
\* total_minutes = total_time / 60
SecondsPerMinute == 60

\* the non-finite doubles, and a variable not yet assigned
NaN == [nan |-> TRUE]
Inf == [inf |-> TRUE]
None == [none |-> TRUE]
\* no exception has been raised
NoError == "NoError"

---------------------------------------------------------------------------
(* Exact rationals. *)

Abs(x) == IF x < 0 THEN -x ELSE x

RECURSIVE GCD(_, _)
GCD(a, b) == IF b = 0 THEN a ELSE GCD(b, a % b)

\* the rational n / d (d # 0), normalised
Q(n, d) ==
    LET g == GCD(Abs(n), Abs(d))
        s == IF d < 0 THEN -1 ELSE 1
    IN  <<(s * n) \div g, (s * d) \div g>>

QInt(n) == <<n, 1>>
QAdd(x, y) == Q(x[1] * y[2] + y[1] * x[2], x[2] * y[2])
QSub(x, y) == Q(x[1] * y[2] - y[1] * x[2], x[2] * y[2])
QMul(x, y) == Q(x[1] * y[1], x[2] * y[2])
QDiv(x, y) == Q(x[1] * y[2], x[2] * y[1])
QLt(x, y) == x[1] * y[2] < y[1] * x[2]
QLe(x, y) == x[1] * y[2] <= y[1] * x[2]
QSign(x) == IF x[1] > 0 THEN 1 ELSE IF x[1] < 0 THEN -1 ELSE 0
\* int(x): truncation toward zero
QTrunc(x) == IF x[1] >= 0 THEN x[1] \div x[2] ELSE -((-x[1]) \div x[2])

(* Exact reals a + k * sqrt(r), r >= 0. *)

Real(q) == [a |-> q, k |-> QInt(0), r |-> QInt(0)]
Sqrt(q) == [a |-> QInt(0), k |-> QInt(1), r |-> q]
Scale(c, x) == [a |-> QMul(c, x.a), k |-> QMul(c, x.k), r |-> x.r]
\* x + y, where at most one of the two carries a square root or both carry
\* the same one
Add(x, y) ==
    IF y.k = QInt(0) THEN [a |-> QAdd(x.a, y.a), k |-> x.k, r |-> x.r]
    ELSE IF x.k = QInt(0) THEN [a |-> QAdd(x.a, y.a), k |-> y.k, r |-> y.r]
    ELSE [a |-> QAdd(x.a, y.a), k |-> QAdd(x.k, y.k), r |-> x.r]
Sub(x, y) == Add(x, Scale(QInt(-1), y))
\* the sign of a + k * sqrt(r)
Sign(x) ==
    LET sa == QSign(x.a)
        sk == IF QSign(x.r) = 0 THEN 0 ELSE QSign(x.k)
        a2 == QMul(x.a, x.a)
        k2r == QMul(QMul(x.k, x.k), x.r)
    IN  IF sk = 0 THEN sa
        ELSE IF sa = 0 \/ sa = sk THEN sk
        ELSE IF QLt(k2r, a2) THEN sa
        ELSE IF QLt(a2, k2r) THEN sk
        ELSE 0
\* k * k * r with the sign of k: orders the values k * sqrt(r)
SignedSquare(x) == QMul(QInt(QSign(x.k)), QMul(QMul(x.k, x.k), x.r))
\* the sign of x - y; two square roots of different radicands (two entries
\* of a rolling standard deviation, a = 0) are ordered by their squares
Cmp(x, y) ==
    IF x.k # QInt(0) /\ y.k # QInt(0) /\ x.r # y.r
    THEN QSign(QSub(SignedSquare(x), SignedSquare(y)))
    ELSE Sign(Sub(x, y))
\* the comparisons of doubles: every comparison with NaN is false
Gt(x, y) ==
    IF x = NaN \/ y = NaN THEN FALSE
    ELSE IF x = Inf THEN y # Inf
    ELSE IF y = Inf THEN FALSE
    ELSE Cmp(x, y) > 0
Lt(x, y) == Gt(y, x)
Ge(x, y) ==
    IF x = NaN \/ y = NaN THEN FALSE
    ELSE IF x = Inf THEN TRUE
    ELSE IF y = Inf THEN FALSE
    ELSE Cmp(x, y) >= 0
Le(x, y) == Ge(y, x)
\* x / y for a real x and a rational real y (y.k = 0)
Div(x, y) ==
    IF x = NaN \/ y = NaN THEN NaN
    ELSE IF Sign(y) = 0 THEN (IF Sign(x) = 0 THEN NaN ELSE Inf)
    ELSE Scale(QDiv(QInt(1), y.a), x)

---------------------------------------------------------------------------
(* Reductions over a series (balanced recursion: a long series does not     *)
(* nest deeply).                                                            *)

RECURSIVE SumRange(_, _, _)
SumRange(s, lo, hi) ==
    IF lo > hi THEN 0
    ELSE IF lo = hi THEN s[lo]
    ELSE LET mid == (lo + hi) \div 2
         IN  SumRange(s, lo, mid) + SumRange(s, mid + 1, hi)

RECURSIVE MaxRange(_, _, _)
MaxRange(s, lo, hi) ==
    IF lo = hi THEN s[lo]
    ELSE LET mid == (lo + hi) \div 2
             l == MaxRange(s, lo, mid)
             h == MaxRange(s, mid + 1, hi)
         IN  IF l >= h THEN l ELSE h

\* sum over lo..hi of (c * s[i] - m)^2
RECURSIVE SumSqDev(_, _, _, _, _)
SumSqDev(s, c, m, lo, hi) ==
    IF lo > hi THEN 0
    ELSE IF lo = hi THEN (c * s[lo] - m) * (c * s[lo] - m)
    ELSE LET mid == (lo + hi) \div 2
         IN  SumSqDev(s, c, m, lo, mid) + SumSqDev(s, c, m, mid + 1, hi)

---------------------------------------------------------------------------
(* The data frame: the columns the analysis reads. *)

\* s[i] with Python's 0-based index
At(s, i) == s[i + 1]
\* a timestamp (milliseconds) as a real number of seconds
Seconds(ms) == Real(Q(ms, 1000))

\* Series.max(): NaN for an empty series
series_max(s) == IF Len(s) = 0 THEN NaN ELSE Seconds(MaxRange(s, 1, Len(s)))

\* Series.mean(): NaN for an empty series
series_mean(s) ==
    IF Len(s) = 0 THEN NaN ELSE Real(Q(SumRange(s, 1, Len(s)), Len(s)))

\* the sample variance (ddof = 1) of s[lo..hi], hi > lo, computed as pandas
\* does: the mean first, then the squared deviations from it
SampleVar(s, lo, hi) ==
    LET n == hi - lo + 1
        m == Q(SumRange(s, lo, hi), n)
    IN  Q(SumSqDev(s, m[2], m[1], lo, hi), m[2] * m[2] * (n - 1))

\* Series.std(): NaN with fewer than 2 samples
series_std(s) ==
    IF Len(s) < 2 THEN NaN ELSE Sqrt(SampleVar(s, 1, Len(s)))

\* mean_gforce + 0.5*std_gforce
peak_height(mean, std) ==
    IF mean = NaN \/ std = NaN THEN NaN ELSE Add(mean, Scale(Q(1, 2), std))

---------------------------------------------------------------------------
(* scipy.signal.find_peaks(x, height=h), indices 0-based.                   *)

\* _local_maxima_1d's scan ahead of i: the first index after i that ends the
\* run of samples equal to x[i], at most the last index
plateau_end(x, i) ==
    CHOOSE j \in (i + 1)..(Len(x) - 1) :
        /\ j = Len(x) - 1 \/ At(x, j) # At(x, i)
        /\ \A l \in (i + 1)..(j - 1) : At(x, l) = At(x, i)

\* _local_maxima_1d: a rising edge at i followed, after the run of equal
\* samples, by a falling edge; the run's middle (rounded down) is the peak
local_maxima(x) ==
    { (i + plateau_end(x, i) - 1) \div 2 :
        i \in { e \in 1..(Len(x) - 2) :
                  /\ At(x, e - 1) < At(x, e)
                  /\ At(x, plateau_end(x, e)) < At(x, e) } }

\* a height the peak must exceed
height_keep_strict(v, h) == Lt(h, Real(QInt(v)))

\* _select_by_property with pmin = height: keep = (pmin <= peak_heights)
height_keep(v, h) == Le(h, Real(QInt(v)))

find_peaks(x, h) == { p \in local_maxima(x) : height_keep(At(x, p), h) }

---------------------------------------------------------------------------
(* sampling_rate = 1 / (time[1] - time[0]) on numpy doubles: a zero gap     *)
(* divides to inf (a warning, not an exception).                            *)

infer_rate(t) ==
    LET gap == At(t, 1) - At(t, 0)
    IN  IF gap = 0 THEN Inf ELSE Real(Q(1000, gap))

\* int(sampling_rate * 10)
window_of(rate) == QTrunc(QMul(rate.a, QInt(WindowSeconds)))

---------------------------------------------------------------------------
(* Series.rolling(window=w, center=True).std(), w >= 1.  pandas' fixed      *)
(* window indexer: offset = (w - 1) // 2, the window of index i is          *)
(* [i + 1 + offset - w, i + 1 + offset), and an entry is NaN unless the     *)
(* window holds w samples (min_periods = w).                                *)

\* a window centred half a sample the other way (offset = w // 2)
center_offset_late(w) == w \div 2

\* center=True: offset = (window_size - 1) // 2
center_offset(w) == (w - 1) \div 2

window_start(i, w) == i + 1 + center_offset(w) - w
window_stop(i, w) == i + 1 + center_offset(w)

rolling_entry(x, i, w) ==
    IF window_start(i, w) < 0 \/ window_stop(i, w) > Len(x) \/ w < 2
    THEN NaN
    ELSE Sqrt(SampleVar(x, window_start(i, w) + 1, window_stop(i, w)))

rolling_center_std(x, w) == [i \in 1..Len(x) |-> rolling_entry(x, i - 1, w)]

---------------------------------------------------------------------------
(* scipy.signal.welch(x, fs, nperseg=1024) and spectrogram(x, fs,           *)
(* window='hann', nperseg=1024, noverlap=512).  The transform itself is not *)
(* computed: the power values are the input "spectrum".  What is modelled   *)
(* is the framing: a segment longer than the series is cut to the series    *)
(* length (a warning), and an overlap that is not shorter than the segment  *)
(* raises ValueError.                                                       *)

\* _triage_segments: nperseg > input_length gives nperseg = input_length
triage_nperseg(n) == IF NPerSeg > n THEN n ELSE NPerSeg

\* the one-sided frequency bins of a segment: nperseg // 2 + 1
n_bins(n) == triage_nperseg(n) \div 2 + 1

\* welch: noverlap defaults to nperseg // 2, which is always below nperseg
welch(x, power) == [nperseg |-> triage_nperseg(Len(x)), power |-> power]

\* spectrogram raises when noverlap >= nperseg
spectrogram_raises(n) == NOverlap >= triage_nperseg(n)

\* spectrogram: the frames, (n - noverlap) // (nperseg - noverlap) of them
create_spectrogram(x) ==
    [nperseg |-> triage_nperseg(Len(x)),
     frames |-> (Len(x) - NOverlap) \div (triage_nperseg(Len(x)) - NOverlap)]

\* the last index holding the maximum
argmax_last(p) ==
    CHOOSE i \in 0..(Len(p) - 1) :
        /\ \A j \in 0..(Len(p) - 1) : At(p, j) <= At(p, i)
        /\ \A j \in (i + 1)..(Len(p) - 1) : At(p, j) < At(p, i)

\* np.argmax: the first index (0-based) holding the maximum
argmax(p) ==
    CHOOSE i \in 0..(Len(p) - 1) :
        /\ \A j \in 0..(Len(p) - 1) : At(p, j) <= At(p, i)
        /\ \A j \in 0..(i - 1) : At(p, j) < At(p, i)

\* rfftfreq: freqs[b] = b * fs / nperseg; with fs = inf bin 0 is 0 * inf
freq_of(b, fs, nperseg) ==
    IF fs = Inf THEN (IF b = 0 THEN NaN ELSE Inf)
    ELSE Scale(Q(b, nperseg), fs)

\* freqs[np.argmax(psd)]
dominant_freq(p, fs) == freq_of(argmax(p.power), fs, p.nperseg)

---------------------------------------------------------------------------
(* The presentation rules of the two entry points. *)

\* Series.quantile(0.75): NaN entries are skipped, NaN when none is left;
\* otherwise the linear interpolation lo + frac * (hi - lo) between the two
\* order statistics around position 0.75 * (m - 1), kept unevaluated
defined_at(r) == { i \in 1..Len(r) : r[i] # NaN }

order_stat(r, k) ==
    CHOOSE v \in { r[i] : i \in defined_at(r) } :
        /\ Cardinality({ i \in defined_at(r) : Lt(r[i], v) }) <= k
        /\ k < Cardinality({ i \in defined_at(r) : Le(r[i], v) })

quantile75(r) ==
    LET m == Cardinality(defined_at(r))
        pos == Q(3 * (m - 1), 4)
        lo == QTrunc(pos)
    IN  IF m = 0 THEN NaN
        ELSE [lo |-> order_stat(r, lo),
              hi |-> order_stat(r, IF lo + 1 < m THEN lo + 1 ELSE lo),
              frac |-> QSub(pos, QInt(lo))]

\* x > quantile, for an entry x of the same series: frac < 1, so the
\* interpolated value is at least lo, and below hi unless lo = hi
gt_quantile(x, q) ==
    IF x = NaN \/ q = NaN THEN FALSE
    ELSE IF Le(x, q.lo) THEN FALSE
    ELSE Ge(x, q.hi)

\* analysis['rolling_std'] > analysis['rolling_std'].quantile(0.75)
high_activity_periods(r) ==
    LET q == quantile75(r) IN { i \in 1..Len(r) : gt_quantile(r[i], q) }

\* analysis['std_gforce'] / analysis['mean_gforce']
std_coefficient_of(a) == Div(a.std_gforce, a.mean_gforce)

\* analysis['total_time'] / 60
total_minutes_of(a) ==
    IF a.total_time = NaN THEN NaN
    ELSE Scale(Q(1, SecondsPerMinute), a.total_time)

\* a chain whose upper boundary belongs to "high"
variation_class_app_inclusive(c) ==
    IF Ge(c, Real(Q(1, 10))) THEN "high"
    ELSE IF Gt(c, Real(Q(5, 100))) THEN "moderate"
    ELSE "low"

\* the dashboard: if std_coefficient > 0.1 / elif > 0.05 / else
variation_class_app(c) ==
    IF Gt(c, Real(Q(1, 10))) THEN "high"
    ELSE IF Gt(c, Real(Q(5, 100))) THEN "moderate"
    ELSE "low"

\* the console script's printed assessment: the same chain
variation_class_simple(c) ==
    IF Gt(c, Real(Q(1, 10))) THEN "high"
    ELSE IF Gt(c, Real(Q(5, 100))) THEN "moderate"
    ELSE "low"

\* the console script's figure text: the same chain
variation_class_figure(c) ==
    IF Gt(c, Real(Q(1, 10))) THEN "high"
    ELSE IF Gt(c, Real(Q(5, 100))) THEN "moderate"
    ELSE "low"

\* the dashboard: if total_minutes < 8 / elif total_minutes > 15 / else
duration_class_app(m) ==
    IF Lt(m, Real(QInt(8))) THEN "short"
    ELSE IF Gt(m, Real(QInt(15))) THEN "over"
    ELSE "optimal"

\* a chain whose lower boundary is not optimal
duration_class_simple_exclusive(m) ==
    IF Lt(Real(QInt(8)), m) /\ Le(m, Real(QInt(15))) THEN "optimal"
    ELSE IF Le(m, Real(QInt(8))) THEN "short"
    ELSE "over"

\* the console script: if 8 <= total_minutes <= 15 / elif < 8 / else
duration_class_simple(m) ==
    IF Le(Real(QInt(8)), m) /\ Le(m, Real(QInt(15))) THEN "optimal"
    ELSE IF Lt(m, Real(QInt(8))) THEN "short"
    ELSE "over"

\* the console script's figure text: the same chain
duration_class_figure(m) ==
    IF Le(Real(QInt(8)), m) /\ Le(m, Real(QInt(15))) THEN "optimal"
    ELSE IF Lt(m, Real(QInt(8))) THEN "short"
    ELSE "over"

\* if analysis['dominant_freq'] > 1
frequency_class(f) == IF Gt(f, Real(QInt(1))) THEN "fast" ELSE "slow"

---------------------------------------------------------------------------
(* Inputs.  The short series are enumerated exhaustively; the long series   *)
(* are long enough for the spectrogram's overlap and are built to have an   *)
(* exact mean m and, for an odd length and no burst, an exact standard      *)
(* deviation d.                                                             *)

\* a uniformly sampled frame: timestamps 0, dt, 2 dt, ... (dt = 0: the
\* instrument repeated its timestamp)
Frame(s, dt) == [time |-> [i \in 1..Len(s) |-> (i - 1) * dt], gFTotal |-> s]

ShortSeries ==
    UNION { [1..n -> 0..MaxVal] : n \in 0..MaxLen } \cup { <<0, 2, 0, 3>> }

\* the gaps of the short series (ms): window sizes inf, 4, 3 and 2
TimeSteps == {0, 2500, 2800, 5000}

FlatSpectrum(n) == [b \in 1..n_bins(n) |-> 1]

ShortInputs ==
    { [df |-> Frame(s, dt), spectrum |-> FlatSpectrum(Len(s))] :
        s \in ShortSeries, dt \in TimeSteps }

\* every PSD array of a 4-sample series
SpectrumInputs ==
    { [df |-> Frame(<<0, 1, 0, 1>>, 2500), spectrum |-> p] :
        p \in [1..n_bins(4) -> 0..MaxPow] }

\* samples alternating m + d, m - d (an odd length ends on m), the first
\* pair swinging b times as far: a burst when b > 1
LongSeries(n, m, d, b) ==
    [i \in 1..n |-> IF i = n /\ n % 2 = 1 THEN m
                    ELSE IF i = 1 THEN m + b * d
                    ELSE IF i = 2 THEN m - b * d
                    ELSE IF i % 2 = 1 THEN m + d ELSE m - d]

\* <<length, mean, deviation, gap (ms), burst>>
LongCases ==
    { <<513, 25, 1, 800, 1>>, <<513, 20, 1, 800, 1>>, <<513, 50, 3, 800, 1>>,
      <<513, 10, 1, 800, 1>>, <<513, 100, 11, 800, 1>>,
      <<600, 10, 1, 800, 1>>, <<601, 10, 1, 800, 1>>,
      <<1126, 10, 1, 800, 1>>, <<1127, 10, 1, 800, 1>>,
      <<513, 10, 1, 10, 1>>, <<513, 10, 1, 800, 3>> }

\* the bins (0-based) that carry the larger power
LongPeaks == { {}, {7, 9} }

PeakSpectrum(n, K) == [b \in 1..n_bins(n) |-> IF (b - 1) \in K THEN 2 ELSE 1]

LongInputs ==
    { [df |-> Frame(LongSeries(c[1], c[2], c[3], c[5]), c[4]),
       spectrum |-> PeakSpectrum(c[1], K)] : c \in LongCases, K \in LongPeaks }

\* the CSV file is not there
Missing == [missing |-> TRUE]
MissingInput == [df |-> Missing, spectrum |-> <<>>]

Inputs == ShortInputs \cup SpectrumInputs \cup LongInputs \cup {MissingInput}

Init ==
    /\ entry \in {"app", "simple"}
    /\ pc = "load"
    /\ \E inp \in Inputs : df = inp.df /\ spectrum = inp.spectrum
    /\ total_time = None /\ mean_gforce = None /\ std_gforce = None
    /\ peaks = None /\ sampling_rate = None /\ psd = None
    /\ window_size = None /\ rolling_std = None /\ analysis = None
    /\ Sxx = None /\ fig = None
    /\ out = <<>>
    /\ error = NoError

---------------------------------------------------------------------------
(* The steps of main().                                                     *)

locals == <<total_time, mean_gforce, std_gforce, peaks, sampling_rate, psd,
            window_size, rolling_std>>

\* an exception reaches main's handler, which reports it: the run is over
Raise(e) ==
    /\ pc' = "failed"
    /\ error' = e
    /\ out' = Append(out, [kind |-> "error", value |-> e])

Emit(kind, value) == out' = Append(out, [kind |-> kind, value |-> value])

\* df = load_data(...)
load_data ==
    /\ pc = "load"
    /\ IF df = Missing
       THEN Raise("FileNotFoundError")
       ELSE pc' = "stats" /\ UNCHANGED <<out, error>>
    /\ UNCHANGED <<entry, df, spectrum, locals, analysis, Sxx, fig>>

\* total_time, mean_gforce, std_gforce
statistics ==
    /\ pc = "stats"
    /\ total_time' = series_max(df.time)
    /\ mean_gforce' = series_mean(df.gFTotal)
    /\ std_gforce' = series_std(df.gFTotal)
    /\ pc' = "peaks"
    /\ UNCHANGED <<entry, df, spectrum, peaks, sampling_rate, psd, window_size,
                   rolling_std, analysis, Sxx, fig, out, error>>

\* peaks, _ = signal.find_peaks(df['gFTotal'], height=mean + 0.5*std)
detect_peaks ==
    /\ pc = "peaks"
    /\ peaks' = find_peaks(df.gFTotal, peak_height(mean_gforce, std_gforce))
    /\ pc' = "rate"
    /\ UNCHANGED <<entry, df, spectrum, total_time, mean_gforce, std_gforce,
                   sampling_rate, psd, window_size, rolling_std, analysis,
                   Sxx, fig, out, error>>

\* sampling_rate = 1 / (df['time'].iloc[1] - df['time'].iloc[0])
sampling ==
    /\ pc = "rate"
    /\ IF Len(df.time) < 2
       THEN Raise("IndexError") /\ UNCHANGED sampling_rate
       ELSE /\ sampling_rate' = infer_rate(df.time)
            /\ pc' = "welch"
            /\ UNCHANGED <<out, error>>
    /\ UNCHANGED <<entry, df, spectrum, total_time, mean_gforce, std_gforce,
                   peaks, psd, window_size, rolling_std, analysis, Sxx, fig>>

\* freqs, psd = signal.welch(df['gFTotal'], fs=sampling_rate, nperseg=1024)
power_spectrum ==
    /\ pc = "welch"
    /\ psd' = welch(df.gFTotal, spectrum)
    /\ pc' = "rolling"
    /\ UNCHANGED <<entry, df, spectrum, total_time, mean_gforce, std_gforce,
                   peaks, sampling_rate, window_size, rolling_std, analysis,
                   Sxx, fig, out, error>>

\* window_size = int(sampling_rate * 10): int(inf) raises OverflowError
\* rolling_std = df['gFTotal'].rolling(window=window_size, center=True).std()
rolling ==
    /\ pc = "rolling"
    /\ IF sampling_rate = Inf
       THEN Raise("OverflowError") /\ UNCHANGED <<window_size, rolling_std>>
       ELSE /\ window_size' = window_of(sampling_rate)
            /\ rolling_std' = rolling_center_std(df.gFTotal, window_size')
            /\ pc' = "summary"
            /\ UNCHANGED <<out, error>>
    /\ UNCHANGED <<entry, df, spectrum, total_time, mean_gforce, std_gforce,
                   peaks, sampling_rate, psd, analysis, Sxx, fig>>

\* analysis = {...}; return analysis
summary ==
    /\ pc = "summary"
    /\ analysis' = [total_time |-> total_time,
                    mean_gforce |-> mean_gforce,
                    std_gforce |-> std_gforce,
                    num_peaks |-> Cardinality(peaks),
                    sampling_rate |-> sampling_rate,
                    dominant_freq |-> dominant_freq(psd, sampling_rate),
                    rolling_std |-> rolling_std]
    /\ pc' = IF entry = "app" THEN "metrics" ELSE "plots"
    /\ UNCHANGED <<entry, df, spectrum, locals, Sxx, fig, out, error>>

---------------------------------------------------------------------------
(* The dashboard (gluten_analysis_app.py), after the analysis.              *)

\* the four st.metric calls
app_metrics ==
    /\ entry = "app" /\ pc = "metrics"
    /\ Emit("metrics", [total_time |-> analysis.total_time,
                        mean_gforce |-> analysis.mean_gforce,
                        dominant_freq |-> analysis.dominant_freq,
                        num_peaks |-> analysis.num_peaks])
    /\ pc' = "plot"
    /\ UNCHANGED <<entry, df, spectrum, locals, analysis, Sxx, fig, error>>

\* fig = plot_spectrogram(df, analysis); st.pyplot(fig)
app_plot ==
    /\ entry = "app" /\ pc = "plot"
    /\ IF spectrogram_raises(Len(df.gFTotal))
       THEN Raise("ValueError") /\ UNCHANGED Sxx
       ELSE /\ Sxx' = create_spectrogram(df.gFTotal)
            /\ Emit("figure", Sxx')
            /\ pc' = "activity"
            /\ UNCHANGED error
    /\ UNCHANGED <<entry, df, spectrum, locals, analysis, fig>>

\* the high-activity report
app_activity ==
    /\ entry = "app" /\ pc = "activity"
    /\ LET high == high_activity_periods(analysis.rolling_std)
       IN  Emit("activity", IF high # {} THEN Cardinality(high) ELSE 0)
    /\ pc' = "frequency"
    /\ UNCHANGED <<entry, df, spectrum, locals, analysis, Sxx, fig, error>>

\* the dominant-frequency report
app_frequency ==
    /\ entry = "app" /\ pc = "frequency"
    /\ Emit("frequency", frequency_class(analysis.dominant_freq))
    /\ pc' = "variation"
    /\ UNCHANGED <<entry, df, spectrum, locals, analysis, Sxx, fig, error>>

\* the gluten-network assessment
app_variation ==
    /\ entry = "app" /\ pc = "variation"
    /\ Emit("variation", variation_class_app(std_coefficient_of(analysis)))
    /\ pc' = "duration"
    /\ UNCHANGED <<entry, df, spectrum, locals, analysis, Sxx, fig, error>>

\* the recommendation
app_duration ==
    /\ entry = "app" /\ pc = "duration"
    /\ Emit("duration", duration_class_app(total_minutes_of(analysis)))
    /\ pc' = "done"
    /\ UNCHANGED <<entry, df, spectrum, locals, analysis, Sxx, fig, error>>

---------------------------------------------------------------------------
(* The console script (gluten_analysis_simple.py), after the analysis.      *)

\* fig = create_analysis_plots(df, analysis): the spectrogram, then the
\* summary text with its count and its two assessments
simple_plots ==
    /\ entry = "simple" /\ pc = "plots"
    /\ IF spectrogram_raises(Len(df.gFTotal))
       THEN Raise("ValueError") /\ UNCHANGED <<Sxx, fig>>
       ELSE /\ Sxx' = create_spectrogram(df.gFTotal)
            /\ fig' = [high_activity_periods |->
                           Cardinality(high_activity_periods(analysis.rolling_std)),
                       variation |->
                           variation_class_figure(std_coefficient_of(analysis)),
                       duration |->
                           duration_class_figure(total_minutes_of(analysis))]
            /\ pc' = "save"
            /\ UNCHANGED <<out, error>>
    /\ UNCHANGED <<entry, df, spectrum, locals, analysis>>

\* plt.savefig(...); plt.show()
simple_save ==
    /\ entry = "simple" /\ pc = "save"
    /\ Emit("figure", fig)
    /\ pc' = "report"
    /\ UNCHANGED <<entry, df, spectrum, locals, analysis, Sxx, fig, error>>

\* the four printed summary lines
simple_report ==
    /\ entry = "simple" /\ pc = "report"
    /\ Emit("metrics", [total_time |-> analysis.total_time,
                        mean_gforce |-> analysis.mean_gforce,
                        dominant_freq |-> analysis.dominant_freq,
                        num_peaks |-> analysis.num_peaks])
    /\ pc' = "variation"
    /\ UNCHANGED <<entry, df, spectrum, locals, analysis, Sxx, fig, error>>

\* the printed assessment
simple_variation ==
    /\ entry = "simple" /\ pc = "variation"
    /\ Emit("variation", variation_class_simple(std_coefficient_of(analysis)))
    /\ pc' = "duration"
    /\ UNCHANGED <<entry, df, spectrum, locals, analysis, Sxx, fig, error>>

\* the printed recommendation
simple_duration ==
    /\ entry = "simple" /\ pc = "duration"
    /\ Emit("duration", duration_class_simple(total_minutes_of(analysis)))
    /\ pc' = "done"
    /\ UNCHANGED <<entry, df, spectrum, locals, analysis, Sxx, fig, error>>

---------------------------------------------------------------------------

Next ==
    \/ load_data
    \/ statistics
    \/ detect_peaks
    \/ sampling
    \/ power_spectrum
    \/ rolling
    \/ summary
    \/ app_metrics
    \/ app_plot
    \/ app_activity
    \/ app_frequency
    \/ app_variation
    \/ app_duration
    \/ simple_plots
    \/ simple_save
    \/ simple_report
    \/ simple_variation
    \/ simple_duration

Spec == Init /\ [][Next]_vars

---------------------------------------------------------------------------
(* Properties.                                                              *)

\* what the run has emitted of one kind
Emitted(kind) == { out[i].value : i \in { j \in 1..Len(out) : out[j].kind = kind } }

\* the steps at which the analysis has been returned to main
Analysed == pc \notin {"load", "stats", "peaks", "rate", "welch", "rolling", "summary"}
            /\ analysis # None

\* std / mean > n / d, stated on the variance and the mean (mean > 0):
\* var * d^2 > n^2 * mean^2
CoefficientAbove(n, d) ==
    /\ QSign(analysis.mean_gforce.a) > 0
    /\ QLt(QMul(Q(n * n, d * d),
                QMul(analysis.mean_gforce.a, analysis.mean_gforce.a)),
           analysis.std_gforce.r)

\* std / mean = n / d
CoefficientIs(n, d) ==
    /\ QSign(analysis.mean_gforce.a) > 0
    /\ QMul(Q(n * n, d * d),
            QMul(analysis.mean_gforce.a, analysis.mean_gforce.a))
         = analysis.std_gforce.r

\* every assessment of the variation the run has produced so far
VariationReports ==
    Emitted("variation") \cup (IF fig = None THEN {} ELSE {fig.variation})

\* C1: in both entry points the variation coefficient v = std / mean is
\* classified high exactly when v > 0.10, moderate exactly when
\* 0.05 < v <= 0.10 and low exactly when v <= 0.05; 0.04, 0.05, 0.06, 0.10
\* and 0.11 are low, low, moderate, moderate, high.
C1_VariationClassification ==
    \A c \in VariationReports :
        /\ (c = "high") <=> CoefficientAbove(10, 100)
        /\ (c = "moderate") <=>
               (~CoefficientAbove(10, 100) /\ CoefficientAbove(5, 100))
        /\ (c = "low") <=> ~CoefficientAbove(5, 100)
        /\ CoefficientIs(4, 100) => c = "low"
        /\ CoefficientIs(5, 100) => c = "low"
        /\ CoefficientIs(6, 100) => c = "moderate"
        /\ CoefficientIs(10, 100) => c = "moderate"
        /\ CoefficientIs(11, 100) => c = "high"

\* a finished console run whose coefficient is exactly 0.10: the figure and
\* the printed assessment both say moderate
C1_Witness ==
    /\ entry = "simple" /\ pc = "done"
    /\ CoefficientIs(10, 100)
    /\ Emitted("variation") = {"moderate"}
    /\ fig.variation = "moderate"

\* every recommendation on the duration the run has produced so far
DurationReports ==
    Emitted("duration") \cup (IF fig = None THEN {} ELSE {fig.duration})

\* the total time in seconds, a rational
TotalSeconds == analysis.total_time.a

\* C2: with durationMinutes = totalTime / 60 both entry points report too
\* short exactly when durationMinutes < 8, over-mixing exactly when
\* durationMinutes > 15 and optimal exactly when 8 <= durationMinutes <= 15,
\* so their two chains agree on every total time.
C2_DurationClassification ==
    /\ \A c \in DurationReports :
        /\ (c = "short") <=> QLt(TotalSeconds, QInt(8 * 60))
        /\ (c = "over") <=> QLt(QInt(15 * 60), TotalSeconds)
        /\ (c = "optimal") <=>
               (QLe(QInt(8 * 60), TotalSeconds) /\ QLe(TotalSeconds, QInt(15 * 60)))
    /\ Analysed =>
        /\ duration_class_app(total_minutes_of(analysis))
             = duration_class_simple(total_minutes_of(analysis))
        /\ duration_class_figure(total_minutes_of(analysis))
             = duration_class_simple(total_minutes_of(analysis))

\* a finished dashboard run of exactly 8 minutes, reported optimal
C2_Witness ==
    /\ entry = "app" /\ pc = "done"
    /\ TotalSeconds = QInt(8 * 60)
    /\ Emitted("duration") = {"optimal"}

\* the bins (0-based) that hold the maximum of the PSD
MaxBins ==
    LET top == MaxRange(psd.power, 1, Len(psd.power))
    IN  { b \in 0..(Len(psd.power) - 1) : At(psd.power, b) = top }

\* the frequency of bin b: b * fs / nperseg, fs = 1 / gap
BinFrequency(b) ==
    Real(Q(b * 1000, psd.nperseg * (At(df.time, 1) - At(df.time, 0))))

\* C9: the dominant frequency is the frequency of a bin of maximal power,
\* and of the lowest such bin when several share the maximum.
C9_DominantFrequency ==
    Analysed =>
        \E b \in MaxBins :
            /\ \A c \in MaxBins : b <= c
            /\ analysis.dominant_freq = BinFrequency(b)

\* an analysis whose PSD has its maximum in two bins, neither the first
C9_Witness ==
    /\ Analysed
    /\ Cardinality(MaxBins) >= 2
    /\ 0 \notin MaxBins
    /\ \E b \in MaxBins : b > 0 /\ analysis.dominant_freq = BinFrequency(b)

---------------------------------------------------------------------------

Signal == df.gFTotal

\* the state in which find_peaks has just returned
PeaksReturned == pc = "rate"

\* the threshold of the run: mean + 0.5 std
Height == peak_height(mean_gforce, std_gforce)

\* the first and the last index (0-based) of the run of equal samples
\* that holds index p
RECURSIVE RunStart(_, _)
RunStart(s, p) ==
    IF p = 0 \/ At(s, p - 1) # At(s, p) THEN p ELSE RunStart(s, p - 1)

RECURSIVE RunEnd(_, _)
RunEnd(s, p) ==
    IF p = Len(s) - 1 \/ At(s, p + 1) # At(s, p) THEN p ELSE RunEnd(s, p + 1)

\* p is the middle (rounded down) of a run of equal samples that lies
\* strictly inside the signal, rises on the left and falls on the right
FlatTopMiddle(s, p) ==
    LET l == RunStart(s, p)
        r == RunEnd(s, p)
    IN  /\ 0 < l /\ r < Len(s) - 1
        /\ At(s, l - 1) < At(s, l)
        /\ At(s, r + 1) < At(s, r)
        /\ p = (l + r) \div 2

\* C3, as amended: the detected peaks are exactly the middles (rounded
\* down) of the runs of equal samples that lie strictly inside the signal,
\* rise on the left, fall on the right and reach the threshold
\* h = mean + 0.5 std (value >= h); the first and the last sample are never
\* flagged and a signal without such a run yields the empty set.
C3_PeaksReachingHeight ==
    PeaksReturned =>
        /\ peaks = { p \in 0..(Len(Signal) - 1) :
                       /\ FlatTopMiddle(Signal, p)
                       /\ Ge(Real(QInt(At(Signal, p))), Height) }
        /\ 0 \notin peaks
        /\ (Len(Signal) - 1) \notin peaks

\* a flat-topped maximum whose middle is flagged
C3_Witness ==
    /\ PeaksReturned
    /\ \E p \in peaks : At(Signal, p) = At(Signal, p + 1)

\* C3, as stated: the peaks are exactly the strict local maxima above the
\* threshold, so a flat top and a sample equal to the threshold yield none.
C3_StrictLocalMaxima ==
    PeaksReturned =>
        peaks = { i \in 1..(Len(Signal) - 2) :
                    /\ At(Signal, i) > At(Signal, i - 1)
                    /\ At(Signal, i) > At(Signal, i + 1)
                    /\ Gt(Real(QInt(At(Signal, i))), Height) }

---------------------------------------------------------------------------

\* the state in which the rolling indicator has just been computed
RollingReturned == pc = "summary"

RECURSIVE WinSum(_, _, _)
WinSum(s, lo, hi) == IF lo > hi THEN 0 ELSE At(s, lo) + WinSum(s, lo + 1, hi)

RECURSIVE WinSumSq(_, _, _)
WinSumSq(s, lo, hi) ==
    IF lo > hi THEN 0 ELSE At(s, lo) * At(s, lo) + WinSumSq(s, lo + 1, hi)

\* the sample variance of s[lo..hi] (0-based, w = hi - lo + 1 >= 2):
\* (w * sum x^2 - (sum x)^2) / (w (w - 1))
WindowVariance(s, lo, hi) ==
    LET w == hi - lo + 1
    IN  Q(w * WinSumSq(s, lo, hi) - WinSum(s, lo, hi) * WinSum(s, lo, hi),
          w * (w - 1))

\* C4, as amended: for a window length w >= 2 the indicator has N entries;
\* the first floor(w/2) and the last floor((w-1)/2) are undefined, and every
\* other entry i is the sample standard deviation of the w samples
\* i - floor(w/2) .. i + floor((w-1)/2); for a constant input every defined
\* entry is 0.
C4_RollingWindow ==
    (RollingReturned /\ window_size >= 2) =>
        /\ Len(rolling_std) = Len(Signal)
        /\ \A i \in 0..(Len(Signal) - 1) :
             IF i < window_size \div 2
                \/ i > Len(Signal) - 1 - ((window_size - 1) \div 2)
             THEN At(rolling_std, i) = NaN
             ELSE At(rolling_std, i)
                    = Sqrt(WindowVariance(Signal, i - (window_size \div 2),
                                          i + ((window_size - 1) \div 2)))
        /\ (\A i \in 1..Len(Signal) : Signal[i] = Signal[1]) =>
             \A i \in defined_at(rolling_std) : Sign(rolling_std[i]) = 0

\* an even window: the entry floor(w/2) - 1 samples before the last one is
\* defined, the entry as far after the first one is not
C4_Witness ==
    /\ RollingReturned /\ window_size >= 2 /\ window_size % 2 = 0
    /\ Len(Signal) >= window_size
    /\ At(rolling_std, Len(Signal) - (window_size \div 2)) # NaN
    /\ At(rolling_std, (window_size \div 2) - 1) = NaN

\* C4, as stated: exactly the positions within w/2 samples of the first or
\* of the last sample are undefined, on both edges alike.
C4_SymmetricEdges ==
    (RollingReturned /\ window_size >= 2) =>
        /\ Len(rolling_std) = Len(Signal)
        /\ \A i \in 0..(Len(Signal) - 1) :
             (At(rolling_std, i) = NaN) <=>
                 (\/ i < window_size \div 2
                  \/ (Len(Signal) - 1) - i < window_size \div 2)

---------------------------------------------------------------------------

\* the first two timestamps, when there are two
Gap == At(df.time, 1) - At(df.time, 0)

\* the series cannot give a sampling rate
Degenerate == Len(df.time) < 2 \/ Gap = 0

\* the analysis is past the sampling-rate inference
PastSampling == df # Missing /\ pc \notin {"load", "stats", "peaks", "rate"}

\* C5: the inference yields 1 / (t[1] - t[0]) for a series with two samples
\* and distinct first timestamps, and fails, never passing a non-finite rate
\* on to the rest of the analysis, when the series has fewer than 2 samples
\* or t[1] = t[0].
C5_SamplingFailsOnDegenerateSeries ==
    PastSampling =>
        IF Degenerate
        THEN pc = "failed" /\ sampling_rate = None
        ELSE sampling_rate = Real(Q(1000, Gap))

\* C6: a run ends with the complete summary or with a single failure, and a
\* failed run has emitted no result: nothing but the failure itself.
C6_SummaryOrFailure ==
    /\ pc = "failed" =>
         /\ error # NoError
         /\ \A i \in 1..Len(out) : out[i].kind = "error"
         /\ Len(out) = 1
    /\ pc = "done" => error = NoError /\ analysis # None

\* C7: when the rolling indicator has no defined value the run fails at the
\* 75th percentile and reports no high-activity count.
C7_NoActivityDataFails ==
    (Analysed /\ defined_at(analysis.rolling_std) = {}) =>
        /\ Emitted("activity") = {}
        /\ fig = None

\* the spectral results of the run so far, each with its segment length
SpectralResults ==
    (IF psd = None THEN {} ELSE {psd.nperseg})
        \cup (IF Sxx = None THEN {} ELSE {Sxx.nperseg})

\* C8: for a series shorter than the frame length of 1024 samples no
\* spectral operation works on a frame silently cut to the series length
\* (it fails, or it uses one frame padded to 1024 samples), and Welch and
\* the spectrogram treat the series alike.
C8_ShortSeriesFraming ==
    (df # Missing /\ Len(df.gFTotal) < NPerSeg) =>
        /\ \A n \in SpectralResults : n = NPerSeg
        /\ Sxx # None => Sxx.frames = 1
        /\ ~(psd # None /\ error = "ValueError")

\* x rounded to the nearest integer (x >= 0, half to even as round does)
Round(x) ==
    LET f == QTrunc(x)
        rest == QSub(x, QInt(f))
    IN  IF QLt(rest, Q(1, 2)) THEN f
        ELSE IF QLt(Q(1, 2), rest) THEN f + 1
        ELSE IF f % 2 = 0 THEN f ELSE f + 1

====
